---- MODULE Spec2Model ----
(***************************************************************************)
(* Group-driven membership reconciliation of app/syncables.go:             *)
(* CreateDefaultMemberships, DeleteGroupConstrainedMemberships and         *)
(* SyncSyncableRoles, run one call at a time against a membership store.   *)
(* Every store or app call made by the three functions is one step.        *)
(***************************************************************************)
EXTENDS Integers, Sequences, FiniteSets, TLC

(***************************************************************************)
(* The universe: two users, two teams, one channel in each team.           *)
(***************************************************************************)
Users == {"u1", "u2"}
Teams == {"t1", "t2"}
Channels == {"c1", "c2"}
SyncableTypes == {"Team", "Channel", "Other"}

\* Channel.TeamId of a channel record.
ChannelTeamId(c) == IF c = "c1" THEN "t1" ELSE "t2"

\* The largest cursor handed to CreateDefaultMemberships.
MaxSince == 2

\* GroupMembers.CreateAt of the one group whose members are synced.
GroupMemberCreateAt(u) == IF u = "u1" THEN 1 ELSE 2

\* The syncables the group is linked to with auto-add: team t1 and both
\* channels, so that c2's team is joined only through the channel loop.
GroupTeams == {"t1"}
GroupChannels == {"c1", "c2"}

\* The order in which the store's queries list their rows.
TeamPairOrder == << <<"t1", "u1">>, <<"t1", "u2">>, <<"t2", "u1">>, <<"t2", "u2">> >>
ChannelPairOrder == << <<"c1", "u1">>, <<"c1", "u2">>, <<"c2", "u1">>, <<"c2", "u2">> >>

TeamPairs == Teams \X Users
ChannelPairs == Channels \X Users

(***************************************************************************)
(* Error ids.  Nil is the nil error.                                       *)
(***************************************************************************)
Nil == "nil"
ErrTeamMemberMissing == "store.sql_team.get_member.missing.app_error"
ErrDeletedFromTeam == "api.channel.add_user.to.channel.failed.deleted.app_error"
ErrNotTeamMember == "api.channel.add_user.to.channel.failed.app_error"
ErrUnsupportedSyncableType == "groups.unsupported_syncable_type"
\* The error a failing collaborator call returns, one id per collaborator.
ErrOf(cmd) == cmd \o ".app_error"

VARIABLES
    teamRec,          \* TeamMembers rows: "none", "active" or "deleted" (DeleteAt set)
    teamAdmin,        \* active team memberships with SchemeAdmin = true
    chanMembers,      \* ChannelMembers rows
    chanAdmin,        \* channel memberships with SchemeAdmin = true
    pc,               \* position of the running call, "idle" between calls
    op,               \* the running function
    since,            \* CreateDefaultMemberships' argument
    syncableID,       \* SyncSyncableRoles' arguments
    syncableType,
    teamMembers,      \* the local teamMembers of the running call
    channelMembers,   \* the local channelMembers of the running call
    i,                \* index of the range loop in progress
    channel,          \* the local channel (its TeamId), "" when unset
    tmem,             \* the local tmem: "nil", "active" or "deleted"
    phase,            \* which block of DeleteGroupConstrainedMemberships runs
    notPermitted,     \* users in none of the groups the constrained channels
                      \* (.channels) and the constrained teams (.teams) allow
    permittedAdmins,  \* the local permittedAdmins
    updateFunc,       \* the store whose UpdateMembersRole was selected
    ret,              \* the value returned by the call
    trace,            \* collaborator calls issued by the running call, and the
                      \* team leaves of other sessions during it, in order
    log,              \* a.Log.Info entries of the running call, in order
    before,           \* the memberships when the running call started
    prevAdd           \* cursor of the CreateDefaultMemberships call that returned
                      \* nil with no other call since, else 0

db == <<teamRec, teamAdmin, chanMembers, chanAdmin>>
args == <<op, since, syncableID, syncableType, notPermitted>>
locals == <<teamMembers, channelMembers, i, channel, tmem, phase, permittedAdmins, updateFunc>>
vars == <<db, args, locals, pc, ret, trace, log, before, prevAdd>>

Snapshot == [teamRec |-> teamRec, teamAdmin |-> teamAdmin,
             chanMembers |-> chanMembers, chanAdmin |-> chanAdmin]

Call(cmd, a, b, res) == [cmd |-> cmd, a |-> a, b |-> b, res |-> res]
LogEntry(msg, user, id) == [msg |-> msg, user |-> user, id |-> id]

(***************************************************************************)
(* Collaborators of syncables.go (store queries and app commands).         *)
(***************************************************************************)
\* Store.Group().TeamMembersToAdd: (team, user) rows of group members created
\* at or after the cursor, for the teams the group auto-adds to.
TeamMembersToAdd(s) ==
    SelectSeq(TeamPairOrder,
              LAMBDA p : p[1] \in GroupTeams /\ GroupMemberCreateAt(p[2]) >= s)

\* Store.Group().ChannelMembersToAdd, likewise for channels.
ChannelMembersToAdd(s) ==
    SelectSeq(ChannelPairOrder,
              LAMBDA p : p[1] \in GroupChannels /\ GroupMemberCreateAt(p[2]) >= s)

\* GetTeamMember: the row, deleted or not, or the missing error.
GetTeamMemberErr(t, u) == IF teamRec[<<t, u>>] = "none" THEN ErrTeamMemberMissing ELSE Nil
GetTeamMemberRow(t, u) == IF teamRec[<<t, u>>] = "none" THEN "nil" ELSE teamRec[<<t, u>>]

\* AddTeamMember: joins the user, restoring a deleted row; a no-op for a member.
TeamRecAfterAdd(t, u) == [teamRec EXCEPT ![<<t, u>>] = "active"]

\* AddChannelMember: refused for a user whose team row is deleted or absent.
AddChannelMemberErr(c, u) ==
    CASE teamRec[<<ChannelTeamId(c), u>>] = "deleted" -> ErrDeletedFromTeam
      [] teamRec[<<ChannelTeamId(c), u>>] = "none" -> ErrNotTeamMember
      [] OTHER -> Nil

\* RemoveUserFromTeam: marks the row deleted, drops its roles and the user's
\* memberships of the team's channels.
ChannelsOfTeam(t) == {c \in Channels : ChannelTeamId(c) = t}
TeamRecAfterRemove(t, u) == [teamRec EXCEPT ![<<t, u>>] = "deleted"]
ChanMembersAfterTeamRemove(members, t, u) ==
    members \ {<<c, u>> : c \in ChannelsOfTeam(t)}

\* Store.Group().ChannelMembersToRemove / TeamMembersToRemove: the current
\* memberships, in group-constrained channels / teams, of the users that are
\* in none of the allowed groups, listed in the store's order.
ChannelMembersToRemove ==
    SelectSeq(ChannelPairOrder, LAMBDA p : p \in chanMembers /\ p[2] \in notPermitted.channels)
TeamMembersToRemove ==
    SelectSeq(TeamPairOrder, LAMBDA p : teamRec[p] = "active" /\ p[2] \in notPermitted.teams)

\* UpdateMembersRole(id, userIDs, equality, value) of the team and of the
\* channel store: the members of the syncable the comparison selects get
\* SchemeAdmin = value.
MembersOf(type, id) ==
    IF type = "Team" THEN {u \in Users : teamRec[<<id, u>>] = "active"}
                     ELSE {u \in Users : <<id, u>> \in chanMembers}
Selected(type, id, userIDs, equality) ==
    {u \in MembersOf(type, id) : IF equality = "Equals" THEN u \in userIDs
                                                        ELSE u \notin userIDs}
AdminsAfterUpdate(admins, type, id, userIDs, equality, value) ==
    IF value THEN admins \cup {<<id, u>> : u \in Selected(type, id, userIDs, equality)}
             ELSE admins \ {<<id, u>> : u \in Selected(type, id, userIDs, equality)}

NoUsers == [channels |-> {}, teams |-> {}]

Done(r) == /\ pc' = "done"
           /\ ret' = r

(***************************************************************************)
(* CreateDefaultMemberships(since)                                         *)
(***************************************************************************)
\* After the team loop's element k: the next element, or the channel query.
AfterTeamElement(k) ==
    IF k < Len(teamMembers)
    THEN /\ pc' = "cdm_AddTeamMember"
         /\ i' = k + 1
    ELSE /\ pc' = "cdm_ChannelMembersToAdd"
         /\ i' = 0

\* lines 18-22: entry and the TeamMembersToAdd query.
CreateDefaultMemberships(s) ==
    /\ pc = "idle"
    /\ op' = "CreateDefaultMemberships"
    /\ since' = s
    /\ before' = Snapshot
    /\ log' = <<>>
    /\ UNCHANGED <<db, syncableID, syncableType, notPermitted, prevAdd>>
    /\ UNCHANGED <<channelMembers, channel, tmem, phase, permittedAdmins, updateFunc>>
    /\ \/ /\ trace' = <<Call("TeamMembersToAdd", "", "", Nil)>>
          /\ teamMembers' = TeamMembersToAdd(s)
          /\ ret' = Nil
          /\ IF Len(TeamMembersToAdd(s)) > 0
             THEN pc' = "cdm_AddTeamMember" /\ i' = 1
             ELSE pc' = "cdm_ChannelMembersToAdd" /\ i' = 0
       \/ /\ trace' = <<Call("TeamMembersToAdd", "", "", ErrOf("TeamMembersToAdd"))>>
          /\ Done(ErrOf("TeamMembersToAdd"))
          /\ UNCHANGED <<teamMembers, i>>

\* Mutant: the team loop goes on after a failed AddTeamMember.
M_CDM_TeamAddFailed_Continue(err) ==
    /\ AfterTeamElement(i)
    /\ UNCHANGED ret

\* lines 26-28: the team loop's AddTeamMember returned err.
CDM_TeamAddFailed(err) ==
    /\ Done(err)
    /\ UNCHANGED i

\* lines 24-34: one iteration of the team loop.
CDM_AddTeamMember ==
    /\ pc = "cdm_AddTeamMember"
    /\ LET userTeam == teamMembers[i] IN
       \/ /\ teamRec' = TeamRecAfterAdd(userTeam[1], userTeam[2])
          /\ trace' = Append(trace, Call("AddTeamMember", userTeam[1], userTeam[2], Nil))
          /\ log' = Append(log, LogEntry("added teammember", userTeam[2], userTeam[1]))
          /\ AfterTeamElement(i)
          /\ UNCHANGED ret
       \/ /\ trace' = Append(trace, Call("AddTeamMember", userTeam[1], userTeam[2],
                                          ErrOf("AddTeamMember")))
          /\ CDM_TeamAddFailed(ErrOf("AddTeamMember"))
          /\ UNCHANGED <<teamRec, log>>
    /\ UNCHANGED <<teamAdmin, chanMembers, chanAdmin, args, before, prevAdd>>
    /\ UNCHANGED <<teamMembers, channelMembers, channel, tmem, phase, permittedAdmins, updateFunc>>

\* lines 36-39: the ChannelMembersToAdd query.
CDM_ChannelMembersToAdd ==
    /\ pc = "cdm_ChannelMembersToAdd"
    /\ \/ /\ trace' = Append(trace, Call("ChannelMembersToAdd", "", "", Nil))
          /\ channelMembers' = ChannelMembersToAdd(since)
          /\ IF Len(ChannelMembersToAdd(since)) > 0
             THEN pc' = "cdm_GetChannel" /\ i' = 1 /\ UNCHANGED ret
             ELSE Done(Nil) /\ UNCHANGED i
       \/ /\ trace' = Append(trace, Call("ChannelMembersToAdd", "", "",
                                          ErrOf("ChannelMembersToAdd")))
          /\ Done(ErrOf("ChannelMembersToAdd"))
          /\ UNCHANGED <<channelMembers, i>>
    /\ UNCHANGED <<db, args, log, before, prevAdd>>
    /\ UNCHANGED <<teamMembers, channel, tmem, phase, permittedAdmins, updateFunc>>

\* lines 41-45: GetChannel for the loop's element.
CDM_GetChannel ==
    /\ pc = "cdm_GetChannel"
    /\ LET userChannel == channelMembers[i] IN
       \/ /\ trace' = Append(trace, Call("GetChannel", userChannel[1], "", Nil))
          /\ channel' = ChannelTeamId(userChannel[1])
          /\ pc' = "cdm_GetTeamMember"
          /\ UNCHANGED ret
       \/ /\ trace' = Append(trace, Call("GetChannel", userChannel[1], "", ErrOf("GetChannel")))
          /\ Done(ErrOf("GetChannel"))
          /\ UNCHANGED channel
    /\ UNCHANGED <<db, args, log, before, prevAdd>>
    /\ UNCHANGED <<teamMembers, channelMembers, i, tmem, phase, permittedAdmins, updateFunc>>

\* Mutant: the "no membership found" error aborts the pass too.
M_CDM_GetTeamMemberFatal_AnyError(err) == err # Nil

\* line 48: the errors of GetTeamMember that abort the pass.
CDM_GetTeamMemberFatal(err) == err # Nil /\ err # ErrTeamMemberMissing

\* Mutant: a user whose team row is deleted is added to the team again.
M_CDM_NeedTeamAdd_NotActive(row) == row # "active"

\* Mutant: the team add before the channel add is left out.
M_CDM_NeedTeamAdd_Never(row) == FALSE

\* line 53: whether the user is first added to the team.
CDM_NeedTeamAdd(row) == row = "nil"

\* lines 47-53: GetTeamMember, its error check and the test of tmem.
CDM_GetTeamMember ==
    /\ pc = "cdm_GetTeamMember"
    /\ LET userChannel == channelMembers[i] IN
       \E r \in {<<GetTeamMemberErr(channel, userChannel[2]),
                   GetTeamMemberRow(channel, userChannel[2])>>,
                 <<ErrOf("GetTeamMember"), "nil">>} :
          /\ trace' = Append(trace, Call("GetTeamMember", channel, userChannel[2], r[1]))
          /\ IF CDM_GetTeamMemberFatal(r[1])
             THEN Done(r[1]) /\ UNCHANGED tmem
             ELSE /\ tmem' = r[2]
                  /\ pc' = IF CDM_NeedTeamAdd(r[2]) THEN "cdm_AddTeamMemberFirst"
                                                    ELSE "cdm_AddChannelMember"
                  /\ UNCHANGED ret
    /\ UNCHANGED <<db, args, log, before, prevAdd>>
    /\ UNCHANGED <<teamMembers, channelMembers, i, channel, phase, permittedAdmins, updateFunc>>

\* Mutant: the channel loop stops after its first element.
M_AfterChannelElement_Break(k) ==
    /\ Done(Nil)
    /\ UNCHANGED i

\* After the channel loop's element k: the next element, or return nil.
AfterChannelElement(k) ==
    IF k < Len(channelMembers)
    THEN /\ pc' = "cdm_GetChannel"
         /\ i' = k + 1
         /\ UNCHANGED ret
    ELSE /\ Done(Nil)
         /\ UNCHANGED i

\* Mutant: the iteration ends after the team add (a continue).
M_CDM_AfterTeamAddFirst_Continue == AfterChannelElement(i)

\* lines 62-64: after the team add the same iteration goes on to
\* AddChannelMember.
CDM_AfterTeamAddFirst ==
    /\ pc' = "cdm_AddChannelMember"
    /\ UNCHANGED <<i, ret>>

\* lines 52-62: the team add that precedes the channel add.
CDM_AddTeamMemberFirst ==
    /\ pc = "cdm_AddTeamMemberFirst"
    /\ LET userChannel == channelMembers[i] IN
       \/ /\ teamRec' = TeamRecAfterAdd(channel, userChannel[2])
          /\ trace' = Append(trace, Call("AddTeamMember", channel, userChannel[2], Nil))
          /\ log' = Append(log, LogEntry("added teammember", userChannel[2], channel))
          /\ CDM_AfterTeamAddFirst
       \/ /\ trace' = Append(trace, Call("AddTeamMember", channel, userChannel[2],
                                          ErrOf("AddTeamMember")))
          /\ Done(ErrOf("AddTeamMember"))
          /\ UNCHANGED <<teamRec, log, i>>
    /\ UNCHANGED <<teamAdmin, chanMembers, chanAdmin, args, before, prevAdd>>
    /\ UNCHANGED <<teamMembers, channelMembers, channel, tmem, phase, permittedAdmins, updateFunc>>

\* Mutant: every AddChannelMember error is tolerated.
M_CDM_Tolerated_Any(err) == TRUE

\* Mutant: the conflict is not tolerated.
M_CDM_Tolerated_None(err) == FALSE

\* line 66: the one AddChannelMember error the loop tolerates.
CDM_Tolerated(err) == err = ErrDeletedFromTeam

\* lines 64-82: AddChannelMember, its error check and the log entry.
CDM_AddChannelMember ==
    /\ pc = "cdm_AddChannelMember"
    /\ LET userChannel == channelMembers[i] IN
       \E err \in {AddChannelMemberErr(userChannel[1], userChannel[2]),
                   ErrOf("AddChannelMember")} :
          /\ trace' = Append(trace, Call("AddChannelMember", userChannel[1], userChannel[2], err))
          /\ chanMembers' = IF err = Nil THEN chanMembers \cup {userChannel} ELSE chanMembers
          /\ IF err # Nil /\ ~CDM_Tolerated(err)
             THEN /\ Done(err)
                  /\ UNCHANGED <<log, i>>
             ELSE /\ log' = log \o
                        (IF err # Nil
                         THEN <<LogEntry("Not adding user to channel because they have already left the team",
                                         userChannel[2], userChannel[1])>>
                         ELSE <<>>) \o
                        <<LogEntry("added channelmember", userChannel[2], userChannel[1])>>
                  /\ AfterChannelElement(i)
    /\ UNCHANGED <<teamRec, teamAdmin, chanAdmin, args, before, prevAdd>>
    /\ UNCHANGED <<teamMembers, channelMembers, channel, tmem, phase, permittedAdmins, updateFunc>>

(***************************************************************************)
(* DeleteGroupConstrainedMemberships()                                     *)
(***************************************************************************)
\* Mutant: the team block runs first.
M_DGCM_Order_TeamsFirst == <<"teams", "channels">>

\* lines 88-125: the two blocks of the function in the order they run.
DGCM_Order == <<"channels", "teams">>

\* After the last element of block k: the next block's query, or return nil.
AfterBlock(k) ==
    IF k < Len(DGCM_Order)
    THEN /\ pc' = "dgcm_query"
         /\ phase' = k + 1
         /\ i' = 0
         /\ UNCHANGED ret
    ELSE /\ Done(Nil)
         /\ UNCHANGED <<phase, i>>

\* line 87: entry, with the group memberships as they stand: Dc and Dt are the
\* users in none of the groups allowed in the channels and in the teams.
DeleteGroupConstrainedMemberships(Dc, Dt) ==
    /\ pc = "idle"
    /\ op' = "DeleteGroupConstrainedMemberships"
    /\ notPermitted' = [channels |-> Dc, teams |-> Dt]
    /\ prevAdd' = 0
    /\ before' = Snapshot
    /\ pc' = "dgcm_query"
    /\ phase' = 1
    /\ UNCHANGED <<db, since, syncableID, syncableType, ret, trace, log>>
    /\ UNCHANGED <<teamMembers, channelMembers, i, channel, tmem, permittedAdmins, updateFunc>>

\* lines 88-91: the ChannelMembersToRemove query.
DGCM_ChannelMembersToRemove ==
    /\ pc = "dgcm_query"
    /\ DGCM_Order[phase] = "channels"
    /\ \/ /\ trace' = Append(trace, Call("ChannelMembersToRemove", "", "", Nil))
          /\ channelMembers' = ChannelMembersToRemove
          /\ IF Len(ChannelMembersToRemove) > 0
             THEN pc' = "dgcm_GetChannel" /\ i' = 1 /\ UNCHANGED <<phase, ret>>
             ELSE AfterBlock(phase)
       \/ /\ trace' = Append(trace, Call("ChannelMembersToRemove", "", "",
                                          ErrOf("ChannelMembersToRemove")))
          /\ Done(ErrOf("ChannelMembersToRemove"))
          /\ UNCHANGED <<channelMembers, i, phase>>
    /\ UNCHANGED <<db, args, log, before, prevAdd>>
    /\ UNCHANGED <<teamMembers, channel, tmem, permittedAdmins, updateFunc>>

\* Mutant: a pair whose GetChannel failed is skipped and the loop goes on.
M_DGCM_GetChannelFailed_Skip(err) ==
    /\ IF i < Len(channelMembers)
       THEN pc' = "dgcm_GetChannel" /\ i' = i + 1 /\ UNCHANGED <<phase, ret>>
       ELSE AfterBlock(phase)
    /\ UNCHANGED channel

\* lines 95-97: the removal loop's GetChannel returned err.
DGCM_GetChannelFailed(err) ==
    /\ Done(err)
    /\ UNCHANGED <<channel, i, phase>>

\* lines 93-97: GetChannel for the loop's element.
DGCM_GetChannel ==
    /\ pc = "dgcm_GetChannel"
    /\ LET userChannel == channelMembers[i] IN
       \/ /\ trace' = Append(trace, Call("GetChannel", userChannel[1], "", Nil))
          /\ channel' = ChannelTeamId(userChannel[1])
          /\ pc' = "dgcm_RemoveUserFromChannel"
          /\ UNCHANGED <<ret, i, phase>>
       \/ /\ trace' = Append(trace, Call("GetChannel", userChannel[1], "", ErrOf("GetChannel")))
          /\ DGCM_GetChannelFailed(ErrOf("GetChannel"))
    /\ UNCHANGED <<db, args, log, before, prevAdd>>
    /\ UNCHANGED <<teamMembers, channelMembers, tmem, permittedAdmins, updateFunc>>

\* Mutant: the channel loop goes on after a failed RemoveUserFromChannel.
M_DGCM_ChannelRemoveFailed_Continue(err) ==
    IF i < Len(channelMembers)
    THEN pc' = "dgcm_GetChannel" /\ i' = i + 1 /\ UNCHANGED <<phase, ret>>
    ELSE AfterBlock(phase)

\* lines 100-102: RemoveUserFromChannel returned err.
DGCM_ChannelRemoveFailed(err) ==
    /\ Done(err)
    /\ UNCHANGED <<i, phase>>

\* lines 99-108: RemoveUserFromChannel, its error check and the log entry.
DGCM_RemoveUserFromChannel ==
    /\ pc = "dgcm_RemoveUserFromChannel"
    /\ LET userChannel == channelMembers[i] IN
       \/ /\ trace' = Append(trace, Call("RemoveUserFromChannel", userChannel[1],
                                          userChannel[2], Nil))
          /\ chanMembers' = chanMembers \ {userChannel}
          /\ chanAdmin' = chanAdmin \ {userChannel}
          /\ log' = Append(log, LogEntry("removed channelmember", userChannel[2], userChannel[1]))
          /\ IF i < Len(channelMembers)
             THEN pc' = "dgcm_GetChannel" /\ i' = i + 1 /\ UNCHANGED <<phase, ret>>
             ELSE AfterBlock(phase)
       \/ /\ trace' = Append(trace, Call("RemoveUserFromChannel", userChannel[1],
                                          userChannel[2], ErrOf("RemoveUserFromChannel")))
          /\ DGCM_ChannelRemoveFailed(ErrOf("RemoveUserFromChannel"))
          /\ UNCHANGED <<chanMembers, chanAdmin, log>>
    /\ UNCHANGED <<teamRec, teamAdmin, args, before, prevAdd>>
    /\ UNCHANGED <<teamMembers, channelMembers, channel, tmem, permittedAdmins, updateFunc>>

\* lines 110-113: the TeamMembersToRemove query.
DGCM_TeamMembersToRemove ==
    /\ pc = "dgcm_query"
    /\ DGCM_Order[phase] = "teams"
    /\ \/ /\ trace' = Append(trace, Call("TeamMembersToRemove", "", "", Nil))
          /\ teamMembers' = TeamMembersToRemove
          /\ IF Len(TeamMembersToRemove) > 0
             THEN pc' = "dgcm_RemoveUserFromTeam" /\ i' = 1 /\ UNCHANGED <<phase, ret>>
             ELSE AfterBlock(phase)
       \/ /\ trace' = Append(trace, Call("TeamMembersToRemove", "", "",
                                          ErrOf("TeamMembersToRemove")))
          /\ Done(ErrOf("TeamMembersToRemove"))
          /\ UNCHANGED <<teamMembers, i, phase>>
    /\ UNCHANGED <<db, args, log, before, prevAdd>>
    /\ UNCHANGED <<channelMembers, channel, tmem, permittedAdmins, updateFunc>>

\* lines 115-125: one iteration of the team removal loop.
DGCM_RemoveUserFromTeam ==
    /\ pc = "dgcm_RemoveUserFromTeam"
    /\ LET userTeam == teamMembers[i] IN
       \/ /\ trace' = Append(trace, Call("RemoveUserFromTeam", userTeam[1], userTeam[2], Nil))
          /\ teamRec' = TeamRecAfterRemove(userTeam[1], userTeam[2])
          /\ teamAdmin' = teamAdmin \ {userTeam}
          /\ chanMembers' = ChanMembersAfterTeamRemove(chanMembers, userTeam[1], userTeam[2])
          /\ chanAdmin' = ChanMembersAfterTeamRemove(chanAdmin, userTeam[1], userTeam[2])
          /\ log' = Append(log, LogEntry("removed teammember", userTeam[2], userTeam[1]))
          /\ IF i < Len(teamMembers)
             THEN pc' = "dgcm_RemoveUserFromTeam" /\ i' = i + 1 /\ UNCHANGED <<phase, ret>>
             ELSE AfterBlock(phase)
       \/ /\ trace' = Append(trace, Call("RemoveUserFromTeam", userTeam[1], userTeam[2],
                                          ErrOf("RemoveUserFromTeam")))
          /\ Done(ErrOf("RemoveUserFromTeam"))
          /\ UNCHANGED <<db, log, i, phase>>
    /\ UNCHANGED <<args, before, prevAdd>>
    /\ UNCHANGED <<teamMembers, channelMembers, channel, tmem, permittedAdmins, updateFunc>>

(***************************************************************************)
(* SyncSyncableRoles(syncableID, syncableType)                             *)
(***************************************************************************)
\* The ids a caller passes with each type.
SyncableIDs(type) == IF type = "Channel" THEN Channels ELSE Teams

\* lines 132-142: entry and the PermittedSyncableAdmins query.
SyncSyncableRoles(id, type) ==
    /\ pc = "idle"
    /\ op' = "SyncSyncableRoles"
    /\ syncableID' = id
    /\ syncableType' = type
    /\ before' = Snapshot
    /\ prevAdd' = 0
    /\ UNCHANGED <<db, since, notPermitted>>
    /\ UNCHANGED <<teamMembers, channelMembers, i, channel, tmem, phase, updateFunc>>
    /\ \/ \E P \in SUBSET Users :
             /\ trace' = <<Call("PermittedSyncableAdmins", id, type, Nil)>>
             /\ permittedAdmins' = P
             /\ log' = <<LogEntry("Permitted admins for " \o type, "", id)>>
             /\ pc' = "ssr_switch"
             /\ UNCHANGED ret
       \/ /\ trace' = <<Call("PermittedSyncableAdmins", id, type,
                             ErrOf("PermittedSyncableAdmins"))>>
          /\ Done(ErrOf("PermittedSyncableAdmins"))
          /\ UNCHANGED <<permittedAdmins, log>>

\* Mutant: the switch has no default case and falls back on the team store.
M_SSR_UpdateFunc_DefaultTeam(type) == IF type = "Channel" THEN "Channel" ELSE "Team"

\* lines 146-153: the store whose UpdateMembersRole the switch selects,
\* "" in the default case.
SSR_UpdateFunc(type) ==
    CASE type = "Team" -> "Team"
      [] type = "Channel" -> "Channel"
      [] OTHER -> ""

\* lines 144-153: the switch on syncableType.
SSR_Switch ==
    /\ pc = "ssr_switch"
    /\ IF SSR_UpdateFunc(syncableType) = ""
       THEN /\ Done(ErrUnsupportedSyncableType)
            /\ UNCHANGED updateFunc
       ELSE /\ updateFunc' = SSR_UpdateFunc(syncableType)
            /\ pc' = "ssr_grant"
            /\ UNCHANGED ret
    /\ UNCHANGED <<db, args, trace, log, before, prevAdd>>
    /\ UNCHANGED <<teamMembers, channelMembers, i, channel, tmem, phase, permittedAdmins>>

\* One call of updateFunc(syncableID, permittedAdmins, equality, value).
UpdateMembersRole(equality, value) ==
    /\ trace' = Append(trace, Call("UpdateMembersRole", equality, value, Nil))
    /\ IF updateFunc = "Team"
       THEN /\ teamAdmin' = AdminsAfterUpdate(teamAdmin, "Team", syncableID,
                                              permittedAdmins, equality, value)
            /\ UNCHANGED chanAdmin
       ELSE /\ chanAdmin' = AdminsAfterUpdate(chanAdmin, "Channel", syncableID,
                                              permittedAdmins, equality, value)
            /\ UNCHANGED teamAdmin

UpdateMembersRoleFails(equality, value) ==
    /\ trace' = Append(trace, Call("UpdateMembersRole", equality, value,
                                   ErrOf("UpdateMembersRole")))
    /\ Done(ErrOf("UpdateMembersRole"))
    /\ UNCHANGED <<teamAdmin, chanAdmin>>

\* Mutant: the first update clears the flag of every other member.
M_SSR_GrantArgs_RevokeFirst == <<"NotEquals", FALSE>>

\* Mutant: the first update clears the flag of the permitted users.
M_SSR_GrantArgs_False == <<"Equals", FALSE>>

\* Mutant: the second update uses the equality mode of the first.
M_SSR_RevokeArgs_Equals == <<"Equals", FALSE>>

\* line 155: the equality mode and the value of the first update.
SSR_GrantArgs == <<"Equals", TRUE>>

\* line 160: the equality mode and the value of the second update.
SSR_RevokeArgs == <<"NotEquals", FALSE>>

\* lines 155-158: the first update.
SSR_Grant ==
    /\ pc = "ssr_grant"
    /\ \/ /\ UpdateMembersRole(SSR_GrantArgs[1], SSR_GrantArgs[2])
          /\ pc' = "ssr_revoke"
          /\ UNCHANGED ret
       \/ UpdateMembersRoleFails(SSR_GrantArgs[1], SSR_GrantArgs[2])
    /\ UNCHANGED <<teamRec, chanMembers, args, log, before, prevAdd>>
    /\ UNCHANGED locals

\* lines 160-165: the second update and the return.
SSR_Revoke ==
    /\ pc = "ssr_revoke"
    /\ \/ /\ UpdateMembersRole(SSR_RevokeArgs[1], SSR_RevokeArgs[2])
          /\ Done(Nil)
       \/ UpdateMembersRoleFails(SSR_RevokeArgs[1], SSR_RevokeArgs[2])
    /\ UNCHANGED <<teamRec, chanMembers, args, log, before, prevAdd>>
    /\ UNCHANGED locals

(***************************************************************************)
(* The caller takes the result; the next call may start.                   *)
(***************************************************************************)
Return ==
    /\ pc = "done"
    /\ pc' = "idle"
    /\ prevAdd' = IF op = "CreateDefaultMemberships" /\ ret = Nil THEN since ELSE 0
    /\ op' = ""
    /\ since' = 0
    /\ syncableID' = ""
    /\ syncableType' = ""
    /\ notPermitted' = NoUsers
    /\ teamMembers' = <<>>
    /\ channelMembers' = <<>>
    /\ i' = 0
    /\ channel' = ""
    /\ tmem' = "nil"
    /\ phase' = 0
    /\ permittedAdmins' = {}
    /\ updateFunc' = ""
    /\ ret' = Nil
    /\ trace' = <<>>
    /\ log' = <<>>
    /\ before' = Snapshot
    /\ UNCHANGED db

Init ==
    /\ teamRec = [p \in TeamPairs |-> "none"]
    /\ teamAdmin = {}
    /\ chanMembers = {}
    /\ chanAdmin = {}
    /\ pc = "idle"
    /\ op = ""
    /\ since = 0
    /\ syncableID = ""
    /\ syncableType = ""
    /\ notPermitted = NoUsers
    /\ teamMembers = <<>>
    /\ channelMembers = <<>>
    /\ i = 0
    /\ channel = ""
    /\ tmem = "nil"
    /\ phase = 0
    /\ permittedAdmins = {}
    /\ updateFunc = ""
    /\ ret = Nil
    /\ trace = <<>>
    /\ log = <<>>
    /\ before = [teamRec |-> [p \in TeamPairs |-> "none"], teamAdmin |-> {},
                 chanMembers |-> {}, chanAdmin |-> {}]
    /\ prevAdd = 0

Next ==
    \/ \E s \in 1..MaxSince : CreateDefaultMemberships(s)
    \/ CDM_AddTeamMember
    \/ CDM_ChannelMembersToAdd
    \/ CDM_GetChannel
    \/ CDM_GetTeamMember
    \/ CDM_AddTeamMemberFirst
    \/ CDM_AddChannelMember
    \/ \E Dc \in SUBSET Users : \E Dt \in SUBSET Users :
          DeleteGroupConstrainedMemberships(Dc, Dt)
    \/ DGCM_ChannelMembersToRemove
    \/ DGCM_GetChannel
    \/ DGCM_RemoveUserFromChannel
    \/ DGCM_TeamMembersToRemove
    \/ DGCM_RemoveUserFromTeam
    \/ \E type \in SyncableTypes : \E id \in SyncableIDs(type) : SyncSyncableRoles(id, type)
    \/ SSR_Switch
    \/ SSR_Grant
    \/ SSR_Revoke
    \/ Return

Spec == Init /\ [][Next]_vars

(***************************************************************************)
(* CreateDefaultMemberships with users leaving teams while a pass runs     *)
(* (no lock is held across the calls of a pass).                           *)
(***************************************************************************)
\* The most team leaves that fall into one pass.
MaxLeaves == 1

LeavesInPass == Cardinality({k \in 1..Len(trace) : trace[k].cmd = "LeaveTeam"})

\* Another session's RemoveUserFromTeam(t, u) between two calls of the pass.
LeaveTeam(t, u) ==
    /\ op = "CreateDefaultMemberships"
    /\ pc \notin {"idle", "done"}
    /\ teamRec[<<t, u>>] = "active"
    /\ LeavesInPass < MaxLeaves
    /\ teamRec' = TeamRecAfterRemove(t, u)
    /\ teamAdmin' = teamAdmin \ {<<t, u>>}
    /\ chanMembers' = ChanMembersAfterTeamRemove(chanMembers, t, u)
    /\ chanAdmin' = ChanMembersAfterTeamRemove(chanAdmin, t, u)
    /\ trace' = Append(trace, Call("LeaveTeam", t, u, Nil))
    /\ UNCHANGED <<args, locals, pc, ret, log, before, prevAdd>>

NextConc ==
    \/ \E s \in 1..MaxSince : CreateDefaultMemberships(s)
    \/ CDM_AddTeamMember
    \/ CDM_ChannelMembersToAdd
    \/ CDM_GetChannel
    \/ CDM_GetTeamMember
    \/ CDM_AddTeamMemberFirst
    \/ CDM_AddChannelMember
    \/ \E t \in Teams : \E u \in Users : LeaveTeam(t, u)
    \/ Return

SpecConc == Init /\ [][NextConc]_vars

(***************************************************************************)
(* A caller that invokes CreateDefaultMemberships with one cursor again    *)
(* after every pass that returned an error, starting from any team rows.   *)
(***************************************************************************)
\* The cursor the caller passes.
RetryCursor == 1

InitRetry ==
    /\ teamRec \in [TeamPairs -> {"none", "active", "deleted"}]
    /\ teamAdmin = {}
    /\ chanMembers = {}
    /\ chanAdmin = {}
    /\ pc = "idle"
    /\ op = ""
    /\ since = 0
    /\ syncableID = ""
    /\ syncableType = ""
    /\ notPermitted = NoUsers
    /\ teamMembers = <<>>
    /\ channelMembers = <<>>
    /\ i = 0
    /\ channel = ""
    /\ tmem = "nil"
    /\ phase = 0
    /\ permittedAdmins = {}
    /\ updateFunc = ""
    /\ ret = Nil
    /\ trace = <<>>
    /\ log = <<>>
    /\ before = [teamRec |-> teamRec, teamAdmin |-> {}, chanMembers |-> {}, chanAdmin |-> {}]
    /\ prevAdd = 0

\* The caller invokes the function unless the last pass returned nil.
Retry ==
    /\ prevAdd # RetryCursor
    /\ CreateDefaultMemberships(RetryCursor)

NextRetry ==
    \/ Retry
    \/ CDM_AddTeamMember
    \/ CDM_ChannelMembersToAdd
    \/ CDM_GetChannel
    \/ CDM_GetTeamMember
    \/ CDM_AddTeamMemberFirst
    \/ CDM_AddChannelMember
    \/ Return

\* Every call returns and the caller does re-invoke: a step is taken
\* whenever one is possible.
SpecRetry == InitRetry /\ [][NextRetry]_vars /\ WF_vars(NextRetry)

(***************************************************************************)
(* Properties.                                                             *)
(***************************************************************************)
Returned(f) == pc = "done" /\ op = f
Issued(k, cmd) == trace[k].cmd = cmd
Failed(k, cmd) == trace[k].cmd = cmd /\ trace[k].res # Nil
\* The pass met no failure of a collaborator other than the tolerated
\* conflict and the "no membership found" result.
NoOtherFailure ==
    \A k \in 1..Len(trace) : trace[k].res \in {Nil, ErrTeamMemberMissing, ErrDeletedFromTeam}
ToleratedAt(k) == Issued(k, "AddChannelMember") /\ trace[k].res = ErrDeletedFromTeam
ToleratedFor(p) ==
    \E k \in 1..Len(trace) : trace[k] = Call("AddChannelMember", p[1], p[2], ErrDeletedFromTeam)
Range(seq) == {seq[k] : k \in 1..Len(seq)}

\* C1: after CreateDefaultMemberships returns nil, every pair TeamMembersToAdd
\* returned is a team member and every pair ChannelMembersToAdd returned is a
\* channel member, unless its AddChannelMember failed with the tolerated
\* "already left the team" conflict.
C1_AdditionsApplied ==
    (Returned("CreateDefaultMemberships") /\ ret = Nil) =>
        /\ \A p \in Range(teamMembers) : teamRec[p] = "active"
        /\ \A p \in Range(channelMembers) : p \in chanMembers \/ ToleratedFor(p)

\* A pass returned nil after adding team and channel members and after
\* tolerating a conflict.
C1_Witness ==
    /\ Returned("CreateDefaultMemberships") /\ ret = Nil
    /\ \E p \in Range(teamMembers) : before.teamRec[p] # "active"
    /\ \E p \in Range(channelMembers) : p \in chanMembers /\ p \notin before.chanMembers
    /\ \E p \in Range(channelMembers) : ToleratedFor(p) /\ p \notin chanMembers

\* C2: AddChannelMember for a pair is issued directly after GetTeamMember found
\* the user's team membership, or directly after an AddTeamMember for the
\* channel's team and the user that returned nil, itself issued directly after
\* GetTeamMember found no membership; never after a "no membership found"
\* result without that team add.
C2_TeamBeforeChannel ==
    \A k \in 1..Len(trace) :
        (op = "CreateDefaultMemberships" /\ Issued(k, "AddChannelMember")) =>
            LET t == ChannelTeamId(trace[k].a)
                u == trace[k].b
            IN  /\ k > 2
                /\ \/ trace[k - 1] = Call("GetTeamMember", t, u, Nil)
                   \/ /\ trace[k - 1] = Call("AddTeamMember", t, u, Nil)
                      /\ trace[k - 2] = Call("GetTeamMember", t, u, ErrTeamMemberMissing)

\* A user without a row in the channel's team was added to the team and then to
\* the channel.
C2_Witness ==
    /\ op = "CreateDefaultMemberships"
    /\ \E k \in 3..Len(trace) :
          /\ trace[k] = Call("AddChannelMember", "c2", "u1", Nil)
          /\ trace[k - 1] = Call("AddTeamMember", "t2", "u1", Nil)
          /\ trace[k - 2] = Call("GetTeamMember", "t2", "u1", ErrTeamMemberMissing)
          /\ before.teamRec[<<"t2", "u1">>] = "none"
          /\ teamRec[<<"t2", "u1">>] = "active"

\* C3: a tolerated conflict never ends the pass: the pass does not return
\* that conflict, and, absent any other failure, it returns nil after issuing
\* AddChannelMember for every pair of the list.
C3_ToleratedConflictContinues ==
    (Returned("CreateDefaultMemberships") /\ \E k \in 1..Len(trace) : ToleratedAt(k)) =>
        /\ ret # ErrDeletedFromTeam
        /\ NoOtherFailure =>
              /\ ret = Nil
              /\ \A p \in Range(channelMembers) :
                    \E k \in 1..Len(trace) :
                        Issued(k, "AddChannelMember") /\ <<trace[k].a, trace[k].b>> = p

\* A pass tolerated a conflict, then added a later pair and returned nil.
C3_Witness ==
    /\ Returned("CreateDefaultMemberships") /\ ret = Nil
    /\ \E j, k \in 1..Len(trace) :
          /\ j < k
          /\ ToleratedAt(j)
          /\ Issued(k, "AddChannelMember") /\ trace[k].res = Nil
          /\ <<trace[k].a, trace[k].b>> \notin before.chanMembers

\* C4: after DeleteGroupConstrainedMemberships returns nil, no pair that
\* ChannelMembersToRemove returned is a channel member and no pair that
\* TeamMembersToRemove returned is a team member.
C4_RemovalsApplied ==
    (Returned("DeleteGroupConstrainedMemberships") /\ ret = Nil) =>
        /\ \A p \in Range(channelMembers) : p \notin chanMembers
        /\ \A p \in Range(teamMembers) : teamRec[p] # "active"

\* A pass returned nil after removing two channel members and two team members.
C4_Witness ==
    /\ Returned("DeleteGroupConstrainedMemberships") /\ ret = Nil
    /\ Len(channelMembers) >= 2 /\ Len(teamMembers) >= 2
    /\ Range(channelMembers) \subseteq before.chanMembers
    /\ \A p \in Range(teamMembers) : before.teamRec[p] = "active"

\* C5: within one pass no RemoveUserFromChannel is issued after
\* TeamMembersToRemove was queried or a RemoveUserFromTeam was issued.
C5_ChannelRemovalsFirst ==
    \A j, k \in 1..Len(trace) :
        (j < k /\ Issued(k, "RemoveUserFromChannel")) =>
            ~Issued(j, "TeamMembersToRemove") /\ ~Issued(j, "RemoveUserFromTeam")

\* A pass issued a channel removal and, later, a team removal.
C5_Witness ==
    \E j, k \in 1..Len(trace) :
        /\ j < k
        /\ Issued(j, "RemoveUserFromChannel") /\ trace[j].res = Nil
        /\ Issued(k, "RemoveUserFromTeam") /\ trace[k].res = Nil

\* The SchemeAdmin flags of the memberships of the given type.
Admins(type) == IF type = "Team" THEN teamAdmin ELSE chanAdmin
AdminsBefore(type) == IF type = "Team" THEN before.teamAdmin ELSE before.chanAdmin

\* C6: after SyncSyncableRoles returns nil for a team or a channel, a member of
\* the syncable has SchemeAdmin = true if and only if the user is in the
\* permitted admins the call computed.
C6_AdminIffPermitted ==
    (Returned("SyncSyncableRoles") /\ ret = Nil) =>
        /\ syncableType \in {"Team", "Channel"}
        /\ \A u \in MembersOf(syncableType, syncableID) :
              <<syncableID, u>> \in Admins(syncableType) <=> u \in permittedAdmins

\* A channel sync returned nil after granting the flag to one member and
\* revoking it from another.
C6_Witness ==
    /\ Returned("SyncSyncableRoles") /\ ret = Nil /\ syncableType = "Channel"
    /\ \E u, v \in MembersOf("Channel", syncableID) :
          /\ u \in permittedAdmins /\ <<syncableID, u>> \notin before.chanAdmin
          /\ v \notin permittedAdmins /\ <<syncableID, v>> \in before.chanAdmin

\* C7: SyncSyncableRoles with a type other than Team or Channel issues no
\* UpdateMembersRole and returns the unsupported syncable type error.
C7_UnsupportedTypeError ==
    (Returned("SyncSyncableRoles") /\ syncableType \notin {"Team", "Channel"}) =>
        /\ \A k \in 1..Len(trace) : ~Issued(k, "UpdateMembersRole")
        /\ ret = ErrUnsupportedSyncableType

\* C8: a CreateDefaultMemberships call that directly follows one with the same
\* cursor that returned nil, and that meets no failure of a collaborator,
\* returns nil and leaves the memberships as the first call left them.
C8_SecondRunIdempotent ==
    (Returned("CreateDefaultMemberships") /\ prevAdd = since /\ NoOtherFailure) =>
        /\ ret = Nil
        /\ Snapshot = before

\* A second run with the same cursor re-confirmed existing team and channel
\* members and returned nil.
C8_Witness ==
    /\ Returned("CreateDefaultMemberships") /\ prevAdd = since /\ ret = Nil
    /\ Len(teamMembers) >= 2 /\ Len(channelMembers) >= 2
    /\ \E p \in Range(channelMembers) : p \in chanMembers
    /\ \E k \in 1..Len(trace) : Issued(k, "AddChannelMember") /\ trace[k].res = Nil

\* The AddTeamMember calls of the team loop: those before ChannelMembersToAdd.
InTeamLoop(k) ==
    /\ Issued(k, "AddTeamMember")
    /\ \A j \in 1..k : ~Issued(j, "ChannelMembersToAdd")

\* C9: when an AddTeamMember of the team loop fails, it is the last call the
\* pass issues (no later team pair, no ChannelMembersToAdd, no channel add),
\* the pass returns that error, and the pairs added before it stay members.
C9_TeamAddFailureAborts ==
    \A k \in 1..Len(trace) :
        (op = "CreateDefaultMemberships" /\ InTeamLoop(k) /\ trace[k].res # Nil) =>
            /\ k = Len(trace)
            /\ pc = "done"
            /\ ret = trace[k].res
            /\ \A j \in 1..(k - 1) :
                  Issued(j, "AddTeamMember") => teamRec[<<trace[j].a, trace[j].b>>] = "active"

\* The second AddTeamMember of the team loop failed after the first had added
\* a new member.
C9_Witness ==
    /\ Returned("CreateDefaultMemberships")
    /\ Len(trace) = 3
    /\ Len(teamMembers) = 2
    /\ trace[2] = Call("AddTeamMember", teamMembers[1][1], teamMembers[1][2], Nil)
    /\ Failed(3, "AddTeamMember")
    /\ ret = trace[3].res
    /\ before.teamRec[teamMembers[1]] # "active"
    /\ teamRec[teamMembers[1]] = "active"

\* C10: if the first update (Equals, true) fails, no second update is issued
\* and its error is returned; if the second update (NotEquals, false) fails,
\* its error is returned and every member in the permitted set has
\* SchemeAdmin = true.
C10_PartialRoleSync ==
    \A k \in 1..Len(trace) :
        (op = "SyncSyncableRoles" /\ Failed(k, "UpdateMembersRole")) =>
            /\ k = Len(trace)
            /\ pc = "done"
            /\ ret = trace[k].res
            /\ \A j \in 1..(k - 1) : Issued(j, "UpdateMembersRole") =>
                  /\ trace[j] = Call("UpdateMembersRole", "Equals", TRUE, Nil)
                  /\ trace[k].a = "NotEquals" /\ trace[k].b = FALSE
                  /\ \A u \in MembersOf(syncableType, syncableID) \cap permittedAdmins :
                        <<syncableID, u>> \in Admins(syncableType)
            /\ (\A j \in 1..(k - 1) : ~Issued(j, "UpdateMembersRole")) =>
                  /\ trace[k].a = "Equals" /\ trace[k].b = TRUE
                  /\ Admins(syncableType) = AdminsBefore(syncableType)

\* The second update failed after the first had granted the flag to a member;
\* a member outside the permitted set still has the flag.
C10_Witness ==
    /\ Returned("SyncSyncableRoles") /\ ret = ErrOf("UpdateMembersRole")
    /\ Len(trace) = 3
    /\ \E u, v \in MembersOf(syncableType, syncableID) :
          /\ u \in permittedAdmins
          /\ <<syncableID, u>> \notin AdminsBefore(syncableType)
          /\ <<syncableID, u>> \in Admins(syncableType)
          /\ v \notin permittedAdmins
          /\ <<syncableID, v>> \in Admins(syncableType)

Logged(msg, user, id) == \E n \in 1..Len(log) : log[n] = LogEntry(msg, user, id)
NotAddingMsg == "Not adding user to channel because they have already left the team"

\* C11: "added channelmember" is logged for a pair only when the pair's
\* AddChannelMember returned nil; after the tolerated conflict only the
\* "Not adding" message is logged for the pair.
C11_LoggedOnlyOnSuccess ==
    op = "CreateDefaultMemberships" =>
        /\ \A n \in 1..Len(log) :
              log[n].msg = "added channelmember" =>
                  \E k \in 1..Len(trace) :
                      trace[k] = Call("AddChannelMember", log[n].id, log[n].user, Nil)
        /\ \A k \in 1..Len(trace) :
              ToleratedAt(k) =>
                  /\ Logged(NotAddingMsg, trace[k].b, trace[k].a)
                  /\ ~Logged("added channelmember", trace[k].b, trace[k].a)

\* C12: an AddChannelMember error other than the tolerated conflict is the
\* last call of the pass, which returns that error: no later pair is processed.
C12_OnlyDeletedTolerated ==
    \A k \in 1..Len(trace) :
        (op = "CreateDefaultMemberships" /\ Failed(k, "AddChannelMember")
            /\ trace[k].res # ErrDeletedFromTeam) =>
            /\ k = Len(trace)
            /\ pc = "done"
            /\ ret = trace[k].res

\* AddChannelMember failed with another error for a pair that is not the
\* last of the list, after an earlier pair was added.
C12_Witness ==
    /\ Returned("CreateDefaultMemberships")
    /\ i < Len(channelMembers)
    /\ Failed(Len(trace), "AddChannelMember")
    /\ ret = ErrOf("AddChannelMember")
    /\ \E k \in 1..Len(trace) : Issued(k, "AddChannelMember") /\ trace[k].res = Nil

\* C15: a failing RemoveUserFromChannel or RemoveUserFromTeam is the last
\* call of the pass, which returns that error; after a failed channel removal
\* TeamMembersToRemove is never queried; the removals applied before the
\* failure stay applied.
C15_RemovalFailureAborts ==
    \A k \in 1..Len(trace) :
        (op = "DeleteGroupConstrainedMemberships"
            /\ (Failed(k, "RemoveUserFromChannel") \/ Failed(k, "RemoveUserFromTeam"))) =>
            /\ k = Len(trace)
            /\ pc = "done"
            /\ ret = trace[k].res
            /\ Failed(k, "RemoveUserFromChannel") =>
                  \A j \in 1..Len(trace) :
                      ~Issued(j, "TeamMembersToRemove") /\ ~Issued(j, "RemoveUserFromTeam")
            /\ \A j \in 1..(k - 1) :
                  /\ Issued(j, "RemoveUserFromChannel") =>
                        <<trace[j].a, trace[j].b>> \notin chanMembers
                  /\ Issued(j, "RemoveUserFromTeam") =>
                        teamRec[<<trace[j].a, trace[j].b>>] = "deleted"

\* A team removal failed after a channel removal and a team removal had
\* been applied; a listed team member is left.
C15_Witness ==
    /\ Returned("DeleteGroupConstrainedMemberships")
    /\ Failed(Len(trace), "RemoveUserFromTeam")
    /\ ret = ErrOf("RemoveUserFromTeam")
    /\ i < Len(teamMembers)
    /\ teamRec[teamMembers[Len(teamMembers)]] = "active"
    /\ \E j \in 1..Len(trace) :
          /\ trace[j].cmd = "RemoveUserFromChannel" /\ trace[j].res = Nil
          /\ <<trace[j].a, trace[j].b>> \in before.chanMembers
    /\ \E j \in 1..Len(trace) :
          /\ trace[j].cmd = "RemoveUserFromTeam" /\ trace[j].res = Nil
          /\ before.teamRec[<<trace[j].a, trace[j].b>>] = "active"

\* C16: after GetTeamMember returns "no membership found" the pass goes on
\* with AddTeamMember for the pair; any other GetTeamMember error is the last
\* call of the pass, which returns it before any add for the pair.
C16_MissingIsNotAnError ==
    \A k \in 1..Len(trace) :
        (op = "CreateDefaultMemberships" /\ Issued(k, "GetTeamMember")) =>
            /\ trace[k].res = ErrTeamMemberMissing =>
                  IF k = Len(trace)
                  THEN pc = "cdm_AddTeamMemberFirst"
                  ELSE /\ trace[k + 1].cmd = "AddTeamMember"
                       /\ trace[k + 1].a = trace[k].a /\ trace[k + 1].b = trace[k].b
            /\ trace[k].res \notin {Nil, ErrTeamMemberMissing} =>
                  /\ k = Len(trace)
                  /\ pc = "done"
                  /\ ret = trace[k].res

\* GetTeamMember failed with another error for the second pair, after the
\* first pair had got "no membership found" and was added.
C16_Witness ==
    /\ Returned("CreateDefaultMemberships")
    /\ trace[Len(trace)].cmd = "GetTeamMember"
    /\ ret = ErrOf("GetTeamMember")
    /\ \E k \in 1..(Len(trace) - 2) :
          /\ Issued(k, "GetTeamMember") /\ trace[k].res = ErrTeamMemberMissing
          /\ trace[k + 1] = Call("AddTeamMember", trace[k].a, trace[k].b, Nil)
          /\ Issued(k + 2, "AddChannelMember") /\ trace[k + 2].res = Nil

\* C18: every RemoveUserFromChannel directly follows a GetChannel of the
\* pair's channel that returned nil; a failing GetChannel of the removal loop
\* is the last call of the pass, which returns that error; the pair's
\* membership, the memberships of the later pairs and every team membership
\* are left in place.
C18_GetChannelFailureAborts ==
    \A k \in 1..Len(trace) :
      /\ Issued(k, "RemoveUserFromChannel") =>
            k > 1 /\ trace[k - 1] = Call("GetChannel", trace[k].a, "", Nil)
      /\ (op = "DeleteGroupConstrainedMemberships" /\ Failed(k, "GetChannel")) =>
            /\ k = Len(trace)
            /\ pc = "done"
            /\ ret = trace[k].res
            /\ \A n \in i..Len(channelMembers) : channelMembers[n] \in chanMembers
            /\ teamRec = before.teamRec

\* GetChannel failed for the second of three pairs, after the first was
\* removed.
C18_Witness ==
    /\ Returned("DeleteGroupConstrainedMemberships")
    /\ Failed(Len(trace), "GetChannel")
    /\ ret = ErrOf("GetChannel")
    /\ i = 2 /\ Len(channelMembers) >= 3
    /\ channelMembers[1] \notin chanMembers
    /\ \E p \in TeamPairs : teamRec[p] = "active" /\ p[2] \in notPermitted.teams

\* The AddTeamMember calls of the channel loop: those after ChannelMembersToAdd.
InChannelLoop(k) == \E j \in 1..(k - 1) : Issued(j, "ChannelMembersToAdd")

\* C19: in the channel loop AddTeamMember is issued exactly when GetTeamMember
\* returned no row: after "no membership found" the next call is AddTeamMember;
\* after a row was returned, that of a user who left the team included, the
\* next call is the pair's AddChannelMember and the row is not restored.
C19_TeamAddOnlyWhenNoRow ==
    \A k \in 1..Len(trace) :
        op = "CreateDefaultMemberships" =>
            /\ (Issued(k, "AddTeamMember") /\ InChannelLoop(k)) =>
                  trace[k - 1] = Call("GetTeamMember", trace[k].a, trace[k].b,
                                      ErrTeamMemberMissing)
            /\ (Issued(k, "GetTeamMember") /\ k < Len(trace)) =>
                  IF trace[k].res = ErrTeamMemberMissing
                  THEN trace[k + 1].cmd = "AddTeamMember"
                  ELSE /\ trace[k + 1].cmd = "AddChannelMember"
                       /\ ChannelTeamId(trace[k + 1].a) = trace[k].a
                       /\ trace[k + 1].b = trace[k].b
            /\ (Issued(k, "GetTeamMember") /\ trace[k].res = Nil /\ tmem = "deleted"
                   /\ k >= Len(trace) - 1) =>
                  teamRec[<<trace[k].a, trace[k].b>>] = "deleted"

\* For a user who left the channel's team, AddChannelMember was issued
\* directly after GetTeamMember and the team row is still deleted.
C19_Witness ==
    /\ op = "CreateDefaultMemberships"
    /\ Len(trace) >= 2
    /\ Issued(Len(trace), "AddChannelMember")
    /\ trace[Len(trace) - 1] = Call("GetTeamMember", ChannelTeamId(trace[Len(trace)].a),
                                    trace[Len(trace)].b, Nil)
    /\ tmem = "deleted"
    /\ teamRec[<<trace[Len(trace) - 1].a, trace[Len(trace)].b>>] = "deleted"

\* The pairs of the syncable a SyncSyncableRoles call was given.
OfSyncable(pairs) == {p \in pairs : p[1] = syncableID}

\* C17: SyncSyncableRoles creates and removes no membership and changes
\* SchemeAdmin only for memberships of the given syncable of the given type: a
\* team sync leaves the channel flags and the other teams' flags as they were,
\* a channel sync the team flags and the other channels' flags, and a call
\* with another type changes nothing.
C17_RoleSyncFrame ==
    op = "SyncSyncableRoles" =>
        /\ teamRec = before.teamRec
        /\ chanMembers = before.chanMembers
        /\ syncableType # "Team" => teamAdmin = before.teamAdmin
        /\ syncableType # "Channel" => chanAdmin = before.chanAdmin
        /\ teamAdmin \ OfSyncable(teamAdmin) = before.teamAdmin \ OfSyncable(before.teamAdmin)
        /\ chanAdmin \ OfSyncable(chanAdmin) = before.chanAdmin \ OfSyncable(before.chanAdmin)

\* A team sync returned nil after changing a flag of its team, while the other
\* team and a channel have admins.
C17_Witness ==
    /\ Returned("SyncSyncableRoles") /\ ret = Nil /\ syncableType = "Team"
    /\ OfSyncable(teamAdmin) # OfSyncable(before.teamAdmin)
    /\ teamAdmin \ OfSyncable(teamAdmin) # {}
    /\ chanAdmin # {}

\* C20: the first UpdateMembersRole of a call is (Equals, true) and the second
\* (NotEquals, false), and a member in the permitted set that had
\* SchemeAdmin = true when the call started has it in every state of the call,
\* also after the call aborted.
C20_PermittedAdminKeepsFlag ==
    op = "SyncSyncableRoles" =>
        /\ \A j, k \in 1..Len(trace) :
              (j < k /\ Issued(j, "UpdateMembersRole") /\ Issued(k, "UpdateMembersRole")) =>
                  /\ trace[j].a = "Equals" /\ trace[j].b = TRUE
                  /\ trace[k].a = "NotEquals" /\ trace[k].b = FALSE
        /\ \A u \in MembersOf(syncableType, syncableID) \cap permittedAdmins :
              <<syncableID, u>> \in AdminsBefore(syncableType) =>
                  <<syncableID, u>> \in Admins(syncableType)

\* Between the two updates: a permitted member that was admin still is, and
\* another member has not lost the flag yet.
C20_Witness ==
    /\ op = "SyncSyncableRoles" /\ pc = "ssr_revoke"
    /\ \E u, v \in MembersOf(syncableType, syncableID) :
          /\ u \in permittedAdmins
          /\ <<syncableID, u>> \in AdminsBefore(syncableType)
          /\ <<syncableID, u>> \in Admins(syncableType)
          /\ v \notin permittedAdmins
          /\ <<syncableID, v>> \in Admins(syncableType)

\* The user left team t at step j and was not added to it again before step k.
LeftBefore(j, k, t, u) ==
    /\ j < k
    /\ trace[j] = Call("LeaveTeam", t, u, Nil)
    /\ \A n \in (j + 1)..(k - 1) : trace[n] # Call("AddTeamMember", t, u, Nil)

\* C13: with users leaving teams while the pass runs, the pass never returns
\* the error of an AddChannelMember refused because the user left the team,
\* and returns nil unless a collaborator failed otherwise; an AddChannelMember
\* issued after the user left the channel's team creates no channel
\* membership.
C13_LeaveDuringPassTolerated ==
    op = "CreateDefaultMemberships" =>
        /\ ret \notin {ErrDeletedFromTeam, ErrNotTeamMember}
        /\ (pc = "done" /\ NoOtherFailure) => ret = Nil
        /\ \A j, k \in 1..Len(trace) :
              (Issued(k, "AddChannelMember")
                  /\ LeftBefore(j, k, ChannelTeamId(trace[k].a), trace[k].b)) =>
                  /\ trace[k].res # Nil
                  /\ <<trace[k].a, trace[k].b>> \notin chanMembers

\* A user left the team between the pair's GetTeamMember, which found the
\* membership, and its AddChannelMember; the pass went on and returned nil.
C13_Witness ==
    /\ Returned("CreateDefaultMemberships") /\ ret = Nil
    /\ \E k \in 3..Len(trace) :
          /\ trace[k].cmd = "AddChannelMember" /\ trace[k].res = ErrDeletedFromTeam
          /\ trace[k - 1] = Call("LeaveTeam", ChannelTeamId(trace[k].a), trace[k].b, Nil)
          /\ trace[k - 2] = Call("GetTeamMember", ChannelTeamId(trace[k].a), trace[k].b, Nil)
          /\ k < Len(trace)

\* A step in which a collaborator call fails other than with the tolerated
\* conflict or "no membership found".
PersistenceFailure ==
    /\ pc # "done" /\ pc' = "done"
    /\ ret' \notin {Nil, ErrDeletedFromTeam, ErrNotTeamMember, ErrTeamMemberMissing}

\* A pass returned nil with every listed pair a member, apart from the
\* tolerated conflicts.
PassSucceeded ==
    /\ Returned("CreateDefaultMemberships") /\ ret = Nil
    /\ \A p \in Range(teamMembers) : teamRec[p] = "active"
    /\ \A p \in Range(channelMembers) : p \in chanMembers \/ ToleratedFor(p)

\* No step removes a team or channel membership.
NothingUndone ==
    /\ \A p \in TeamPairs : teamRec[p] = "active" => teamRec'[p] = "active"
    /\ chanMembers \subseteq chanMembers'

\* C14: when the caller re-invokes CreateDefaultMemberships with the same
\* cursor after every pass that returned an error, and from some point on no
\* collaborator call fails, a pass eventually returns nil with every listed
\* pair a member (apart from tolerated conflicts); and no step of any pass
\* removes a membership an earlier pass created.
C14_RetryConverges ==
    /\ (<>[][~PersistenceFailure]_vars) => <>PassSucceeded
    /\ [][NothingUndone]_vars

\* A pass returned nil after an earlier pass had been aborted by a failure
\* that left some of its additions in place.
C14_Witness ==
    /\ PassSucceeded
    /\ \E p \in Range(channelMembers) : p \in before.chanMembers
    /\ \E p \in Range(channelMembers) : p \notin before.chanMembers /\ p \in chanMembers
====
